---- MODULE Spec2Model ----
(***************************************************************************)
(* SheetDAO (gas-sheet-dao): a record store over one spreadsheet sheet.    *)
(* Row 1 of the sheet is the header, every later row is a record whose     *)
(* first cell is the identifier.  The model follows the class method by    *)
(* method; every call of the spreadsheet or lock service is one step, so   *)
(* that calls of several executions interleave between service calls.      *)
(***************************************************************************)
EXTENDS Integers, Sequences, FiniteSets, TLC

(***************************************************************************)
(* Bounds of the model.                                                    *)
(***************************************************************************)
\* number of concurrent executions (callers) of the script
NumProcs == 2
\* largest number of data rows a call may grow the sheet to
MaxRows == 2
\* largest number of calls all executions start in a concurrent run
MaxCalls == 3

Procs == 1..NumProcs
\* the largest identifier an add may assign
MaxNum == MaxRows + 1

(***************************************************************************)
(* Cell values.  A cell or a field holds a number or a string; kind tells  *)
(* which, n is the number and s the string.  "" is the empty cell.         *)
(***************************************************************************)
Num(k) == [kind |-> "num", n |-> k, s |-> ""]
Str(t) == [kind |-> "str", n |-> 0, s |-> t]
Blank == Str("")

\* decimal numerals, DecTable[k + 1] is the numeral of k
DecTable ==
  << "0", "1", "2", "3", "4", "5", "6", "7", "8", "9", "10", "11", "12" >>

\* the value Number() gives for a string that is no numeral
NaN == -1

\* JavaScript String(v)
String(v) == IF v.kind = "num" THEN DecTable[v.n + 1] ELSE v.s

\* JavaScript Number(v): "" is 0, a numeral is its number, other text is NaN
Number(v) ==
  IF v.kind = "num" THEN v.n
  ELSE IF v.s = "" THEN 0
  ELSE IF \E k \in 1..Len(DecTable) : DecTable[k] = v.s
       THEN (CHOOSE k \in 1..Len(DecTable) : DecTable[k] = v.s) - 1
       ELSE NaN

\* (x || 0) for a number x: NaN and 0 are falsy
OrZero(x) == IF x = NaN THEN 0 ELSE x

(***************************************************************************)
(* The header captured by the constructor, and records.  A record is a    *)
(* function from some field names to values (a JavaScript object).         *)
(***************************************************************************)
headers == << "id", "name" >>
lastCol == Len(headers)
idKey == headers[1]
HeaderKeys == {headers[i] : i \in 1..lastCol}
HeaderRow == [i \in 1..lastCol |-> Str(headers[i])]
BlankRow == [i \in 1..lastCol |-> Blank]

\* Merge with the spread order swapped: the fields of a win over those of b
MergeUnder(a, b) ==
  [k \in (DOMAIN a) \cup (DOMAIN b) |-> IF k \in DOMAIN a THEN a[k] ELSE b[k]]

\* { ...a, ...b }
Merge(a, b) ==
  [k \in (DOMAIN a) \cup (DOMAIN b) |-> IF k \in DOMAIN b THEN b[k] ELSE a[k]]

\* headers.reduce((obj, key, index) => { obj[key] = rowArray[index] ... })
_toObject(rowArray) ==
  [key \in HeaderKeys |->
     rowArray[CHOOSE i \in 1..lastCol :
                /\ headers[i] = key
                /\ \A j \in 1..lastCol : headers[j] = key => j <= i]]

\* headers.map((key) => obj[key] ?? "")
_toRowArray(obj) ==
  [i \in 1..lastCol |-> IF headers[i] \in DOMAIN obj THEN obj[headers[i]] ELSE Blank]

(***************************************************************************)
(* The sheet: a sequence of rows, row 1 the header.  Cells outside it are  *)
(* empty; the last row is the last one with content.                       *)
(***************************************************************************)
IsBlankRow(row) == \A i \in 1..lastCol : row[i] = Blank

\* sheet.getLastRow(): the position of the last row that has content
getLastRow(sh) ==
  IF \E r \in 1..Len(sh) : ~IsBlankRow(sh[r])
  THEN CHOOSE r \in 1..Len(sh) :
         /\ ~IsBlankRow(sh[r])
         /\ \A q \in (r + 1)..Len(sh) : IsBlankRow(sh[q])
  ELSE 0

Trim(sh) == SubSeq(sh, 1, getLastRow(sh))

\* sheet.getRange(r, 1, 1, lastCol).getValues()[0]
getRow(sh, r) == IF r <= Len(sh) THEN sh[r] ELSE BlankRow

\* sheet.getRange(1, 1, n, 1).getValues(): the first n cells of column 1
getIdColumn(sh, n) == [r \in 1..n |-> getRow(sh, r)[1]]

\* sheet.appendRow(row): the row goes below the last row with content
appendRow(sh, row) == Trim(Append(sh, row))

\* sheet.getRange(r, 1, 1, lastCol).setValues([row])
setValues(sh, r, row) ==
  Trim([q \in 1..(IF r > Len(sh) THEN r ELSE Len(sh)) |->
          IF q = r THEN row ELSE getRow(sh, q)])

\* sheet.deleteRow(r): the rows below move up by one
deleteRow(sh, r) ==
  IF r > Len(sh) THEN sh
  ELSE Trim([q \in 1..(Len(sh) - 1) |-> IF q < r THEN sh[q] ELSE sh[q + 1]])

\* ScanIds comparing the cell with the id itself, not their strings
ScanIdsStrict(idColumnValues, id) ==
  IF \E r \in 2..Len(idColumnValues) : idColumnValues[r] = id
  THEN CHOOSE r \in 2..Len(idColumnValues) :
         /\ idColumnValues[r] = id
         /\ \A q \in 2..(r - 1) : idColumnValues[q] # id
  ELSE 0

\* the loop of _getRowIndexById over the identifier column it read;
\* 0 stands for null
ScanIds(idColumnValues, id) ==
  IF \E r \in 2..Len(idColumnValues) : String(idColumnValues[r]) = String(id)
  THEN CHOOSE r \in 2..Len(idColumnValues) :
         /\ String(idColumnValues[r]) = String(id)
         /\ \A q \in 2..(r - 1) : String(idColumnValues[q]) # String(id)
  ELSE 0

\* _getRowIndexById run without interleaving
_getRowIndexById(sh, id) ==
  IF getLastRow(sh) <= 1 THEN 0
  ELSE ScanIds(getIdColumn(sh, getLastRow(sh)), id)

\* NewId taken from the number of rows instead of the last identifier
NewIdFromCount(lastRow, lastId) == IF lastRow <= 1 THEN 1 ELSE lastRow

\* add's new identifier from the last row's identifier cell
NewId(lastRow, lastId) == OrZero(Number(IF lastRow <= 1 THEN Num(0) ELSE lastId)) + 1

\* add's newRecord: { [idKey]: newId, ...data }
NewRecord(newId, data) == Merge([k \in {idKey} |-> Num(newId)], data)

(***************************************************************************)
(* The inputs callers pass.  An identifier a caller passes is never the    *)
(* empty string, so that in runs of one call at a time no data row is      *)
(* wholly empty.                                                           *)
(***************************************************************************)
Ops == {"listAll", "find", "add", "update", "remove"}
IdInputs == {Num(1), Str("2"), Str("x")}
FieldInputs == {Str("Ann")}
InputsOf(key) == IF key = idKey THEN IdInputs ELSE FieldInputs
EmptyRec == [k \in {} |-> Blank]

\* every record over some of the header fields
PartialRecords ==
  UNION {{d \in [S -> IdInputs \cup FieldInputs] : \A k \in S : d[k] \in InputsOf(k)} :
           S \in SUBSET HeaderKeys}

\* the records that do not name the identifier field
DataRecords == {d \in PartialRecords : idKey \notin DOMAIN d}

\* the ids find, update and remove are called with
Ids == {Num(k) : k \in 1..MaxNum} \cup {Str("1"), Str("2"), Str("x")}

(***************************************************************************)
(* Return values: kind is "none" while the call runs, then "record",       *)
(* "null", "bool", "list", or "timeout" / "error" for a call that threw.   *)
(***************************************************************************)
NoRet == [kind |-> "none", val |-> 0]
RetRecord(r) == [kind |-> "record", val |-> r]
RetNull == [kind |-> "null", val |-> 0]
RetBool(b) == [kind |-> "bool", val |-> b]
RetList(l) == [kind |-> "list", val |-> l]
ThrowTimeout == [kind |-> "timeout", val |-> 0]
ThrowError == [kind |-> "error", val |-> 0]

VARIABLES
  sheet,      \* the rows of the sheet, row 1 the header
  lock,       \* the execution holding the script lock, 0 when it is free
  pc,         \* pc[p]: where execution p is in its call
  call,       \* call[p]: the operation p runs and its arguments
  lastRow,    \* lastRow[p]: the local lastRow
  rowIndex,   \* rowIndex[p]: the local rowIndex, 0 for null
  rec,        \* rec[p]: the local newRecord (add) or updatedRecord (update)
  ret,        \* ret[p]: what p's call returned or threw
  wrote,      \* wrote[p]: the writes p's call made to the sheet      (history)
  timedOut,   \* timedOut[p]: p's call failed to get the lock         (history)
  pre,        \* the sheet when the running call started              (history)
  adds,       \* the ids the adds returned, while only adds have run  (history)
  pureAdds,   \* no update or remove has been called since the start  (history)
  ncalls,     \* the calls started in a concurrent run                (history)
  dao,        \* what new SheetDAO(...) gave: "none" before it runs, "ok" for
              \* an instance, "notFound" or "empty" for the error it threw
  sheetExists,\* the file has a sheet of the name the constructor is given
  issued,     \* the largest identifier the adds have returned, while addRem
  addRem      \* only add, remove, find and listAll have been called  (history)

vars ==
  << sheet, lock, pc, call, lastRow, rowIndex, rec, ret, wrote, timedOut,
     pre, adds, pureAdds, ncalls, dao, sheetExists, issued, addRem >>

NoCall == [op |-> "none", id |-> Blank, data |-> EmptyRec]

InitProcs ==
  /\ lock = 0
  /\ pc = [p \in Procs |-> "idle"]
  /\ call = [p \in Procs |-> NoCall]
  /\ lastRow = [p \in Procs |-> 0]
  /\ rowIndex = [p \in Procs |-> 0]
  /\ rec = [p \in Procs |-> EmptyRec]
  /\ ret = [p \in Procs |-> NoRet]
  /\ wrote = [p \in Procs |-> 0]
  /\ timedOut = [p \in Procs |-> FALSE]
  /\ ncalls = 0

\* a table holding only its header row, and an instance constructed on it
Init ==
  /\ sheet = << HeaderRow >>
  /\ pre = << HeaderRow >>
  /\ adds = << >>
  /\ pureAdds = TRUE
  /\ issued = 0
  /\ addRem = TRUE
  /\ sheetExists = TRUE
  /\ dao = "ok"
  /\ InitProcs

(***************************************************************************)
(* new SheetDAO(sheetId, sheetName), and create(sheetId, sheetName)        *)
(***************************************************************************)
\* sheet.getLastColumn(): the position of the last column that has content
getLastColumn(sh) ==
  IF \E r \in 1..Len(sh) : \E c \in 1..Len(sh[r]) : sh[r][c] # Blank
  THEN CHOOSE c \in 1..lastCol :
         /\ \E r \in 1..Len(sh) : c <= Len(sh[r]) /\ sh[r][c] # Blank
         /\ \A d \in (c + 1)..lastCol : \A r \in 1..Len(sh) : sh[r][d] = Blank
  ELSE 0

\* the constructor without its check of lastCol === 0
ConstructNoEmptyCheck ==
  /\ dao = "none"
  /\ dao' = IF ~sheetExists THEN "notFound" ELSE "ok"
  /\ UNCHANGED << sheet, lock, pc, call, lastRow, rowIndex, rec, ret, wrote,
                  timedOut, pre, adds, pureAdds, ncalls, sheetExists, issued, addRem >>

\* the constructor: it throws when getSheetByName gives null or the sheet has
\* no column, and otherwise captures the header
Construct ==
  /\ dao = "none"
  /\ dao' = IF ~sheetExists THEN "notFound"
            ELSE IF getLastColumn(sheet) = 0 THEN "empty"
            ELSE "ok"
  /\ UNCHANGED << sheet, lock, pc, call, lastRow, rowIndex, rec, ret, wrote,
                  timedOut, pre, adds, pureAdds, ncalls, sheetExists, issued, addRem >>

\* create(sheetId, sheetName) { return new SheetDAO(sheetId, sheetName) }
create == Construct

\* where a call of op starts
StartPc(o) ==
  CASE o = "listAll" -> "list_getLastRow"
    [] o = "find" -> "idx_getLastRow"
    [] o = "add" -> "waitLock"
    [] o = "update" -> "waitLock"
    [] o = "remove" -> "idx_getLastRow"

\* execution p calls op o with the arguments id and data
Call(p, o, id, data) ==
  /\ dao = "ok"
  /\ pc[p] = "idle"
  /\ pc' = [pc EXCEPT ![p] = StartPc(o)]
  /\ call' = [call EXCEPT ![p] = [op |-> o, id |-> id, data |-> data]]
  /\ ret' = [ret EXCEPT ![p] = NoRet]
  /\ wrote' = [wrote EXCEPT ![p] = 0]
  /\ timedOut' = [timedOut EXCEPT ![p] = FALSE]
  /\ pureAdds' = (pureAdds /\ o \notin {"update", "remove"})
  /\ adds' = IF pureAdds' THEN adds ELSE << >>
  /\ addRem' = (addRem /\ o # "update")
  /\ issued' = IF addRem' THEN issued ELSE 0
  /\ UNCHANGED << sheet, lock, lastRow, rowIndex, rec, dao, sheetExists >>

\* the caller has taken the result of p's call: p is ready for its next call
Return(p) ==
  /\ pc[p] = "done"
  /\ pc' = [pc EXCEPT ![p] = "idle"]
  /\ call' = [call EXCEPT ![p] = NoCall]
  /\ ret' = [ret EXCEPT ![p] = NoRet]
  /\ wrote' = [wrote EXCEPT ![p] = 0]
  /\ timedOut' = [timedOut EXCEPT ![p] = FALSE]
  /\ UNCHANGED << sheet, lock, lastRow, rowIndex, rec, pre, adds, pureAdds, ncalls,
                  dao, sheetExists, issued, addRem >>

\* the call of p ends with r; its locals go out of scope
End(p, r) ==
  /\ pc' = [pc EXCEPT ![p] = "done"]
  /\ ret' = [ret EXCEPT ![p] = r]
  /\ lastRow' = [lastRow EXCEPT ![p] = 0]
  /\ rowIndex' = [rowIndex EXCEPT ![p] = 0]
  /\ rec' = [rec EXCEPT ![p] = EmptyRec]

\* the call of p reaches its finally block with r to return or throw
ToFinally(p, r) ==
  /\ pc' = [pc EXCEPT ![p] = "releaseLock"]
  /\ ret' = [ret EXCEPT ![p] = r]
  /\ lastRow' = [lastRow EXCEPT ![p] = 0]
  /\ rowIndex' = [rowIndex EXCEPT ![p] = 0]
  /\ rec' = [rec EXCEPT ![p] = EmptyRec]

(***************************************************************************)
(* The script lock.                                                        *)
(***************************************************************************)
\* lock.waitLock(30000) returns: the lock was free, p holds it
WaitLock(p) ==
  /\ pc[p] = "waitLock"
  /\ lock = 0
  /\ lock' = p
  /\ pc' = [pc EXCEPT ![p] = IF call[p].op = "add" THEN "add_getLastRow"
                                                   ELSE "idx_getLastRow"]
  /\ UNCHANGED << sheet, call, lastRow, rowIndex, rec, ret, wrote, timedOut,
                  pre, adds, pureAdds, ncalls,
                  dao, sheetExists, issued, addRem >>

\* LockTimeout with the timeout swallowed: the body runs without the lock
LockTimeoutSwallowed(p) ==
  /\ pc[p] = "waitLock"
  /\ lock # 0
  /\ pc' = [pc EXCEPT ![p] = IF call[p].op = "add" THEN "add_getLastRow"
                                                   ELSE "idx_getLastRow"]
  /\ timedOut' = [timedOut EXCEPT ![p] = TRUE]
  /\ UNCHANGED << sheet, lock, call, lastRow, rowIndex, rec, ret, wrote,
                  pre, adds, pureAdds, ncalls,
                  dao, sheetExists, issued, addRem >>

\* lock.waitLock(30000) throws: another execution held the lock for 30 s
LockTimeout(p) ==
  /\ pc[p] = "waitLock"
  /\ lock # 0
  /\ ToFinally(p, ThrowTimeout)
  /\ timedOut' = [timedOut EXCEPT ![p] = TRUE]
  /\ UNCHANGED << sheet, lock, call, wrote, pre, adds, pureAdds, ncalls,
                  dao, sheetExists, issued, addRem >>

\* Released with the lock freed whoever holds it
ReleasedAlways(l, p) == 0

\* the lock after lock.releaseLock() by p: only the holder's lock is freed
Released(l, p) == IF l = p THEN 0 ELSE l

\* finally { lock.releaseLock() }, then the call returns or rethrows
ReleaseLock(p) ==
  /\ pc[p] = "releaseLock"
  /\ lock' = Released(lock, p)
  /\ pc' = [pc EXCEPT ![p] = "done"]
  /\ UNCHANGED << sheet, call, lastRow, rowIndex, rec, ret, wrote, timedOut,
                  pre, adds, pureAdds, ncalls,
                  dao, sheetExists, issued, addRem >>

\* the positions of add and update between try { waitLock } and finally
BodyPcs(o) ==
  IF o = "add" THEN {"add_getLastRow", "add_getValue", "add_appendRow"}
  ELSE IF o = "update"
       THEN {"idx_getLastRow", "idx_getValues", "update_getRow", "update_setValues"}
       ELSE {}

\* BodyError without the finally block: the call ends holding the lock
BodyErrorNoFinally(p) ==
  /\ pc[p] \in BodyPcs(call[p].op)
  /\ End(p, ThrowError)
  /\ UNCHANGED << sheet, lock, call, wrote, timedOut, pre, adds, pureAdds, ncalls,
                  dao, sheetExists, issued, addRem >>

\* a service call in the body of add or update throws
BodyError(p) ==
  /\ pc[p] \in BodyPcs(call[p].op)
  /\ ToFinally(p, ThrowError)
  /\ UNCHANGED << sheet, lock, call, wrote, timedOut, pre, adds, pureAdds, ncalls,
                  dao, sheetExists, issued, addRem >>

(***************************************************************************)
(* add(data)                                                               *)
(***************************************************************************)
\* const lastRow = this.sheet.getLastRow()
AddGetLastRow(p) ==
  /\ pc[p] = "add_getLastRow"
  /\ lastRow' = [lastRow EXCEPT ![p] = getLastRow(sheet)]
  /\ pc' = [pc EXCEPT ![p] = "add_getValue"]
  /\ UNCHANGED << sheet, lock, call, rowIndex, rec, ret, wrote, timedOut,
                  pre, adds, pureAdds, ncalls,
                  dao, sheetExists, issued, addRem >>

\* lastId = lastRow <= 1 ? 0 : getRange(lastRow, 1).getValue(); newId; newRecord
AddGetValue(p) ==
  /\ pc[p] = "add_getValue"
  /\ rec' = [rec EXCEPT ![p] =
               NewRecord(NewId(lastRow[p], getRow(sheet, lastRow[p])[1]), call[p].data)]
  /\ pc' = [pc EXCEPT ![p] = "add_appendRow"]
  /\ UNCHANGED << sheet, lock, call, lastRow, rowIndex, ret, wrote, timedOut,
                  pre, adds, pureAdds, ncalls,
                  dao, sheetExists, issued, addRem >>

\* this.sheet.appendRow(this._toRowArray(newRecord)); return newRecord
AddAppendRow(p) ==
  /\ pc[p] = "add_appendRow"
  /\ sheet' = appendRow(sheet, _toRowArray(rec[p]))
  /\ wrote' = [wrote EXCEPT ![p] = @ + 1]
  /\ adds' = IF pureAdds THEN Append(adds, rec[p][idKey]) ELSE adds
  /\ issued' = IF addRem /\ Number(rec[p][idKey]) > issued
               THEN Number(rec[p][idKey]) ELSE issued
  /\ ToFinally(p, RetRecord(rec[p]))
  /\ UNCHANGED << lock, call, timedOut, pre, pureAdds, ncalls,
                  dao, sheetExists, addRem >>

(***************************************************************************)
(* _getRowIndexById(id), as find, update and remove call it                *)
(***************************************************************************)
\* Miss with update returning false before it releases the lock
MissNoRelease(p) ==
  IF call[p].op = "find" THEN End(p, RetNull) ELSE End(p, RetBool(FALSE))

\* the lookup found no row: find returns null, update and remove false
Miss(p) ==
  IF call[p].op = "update" THEN ToFinally(p, RetBool(FALSE))
  ELSE IF call[p].op = "find" THEN End(p, RetNull)
  ELSE End(p, RetBool(FALSE))

\* the lookup found row r: the caller goes on with it
Hit(p, r) ==
  /\ rowIndex' = [rowIndex EXCEPT ![p] = r]
  /\ pc' = [pc EXCEPT ![p] =
              CASE call[p].op = "find" -> "find_getRow"
                [] call[p].op = "update" -> "update_getRow"
                [] call[p].op = "remove" -> "remove_deleteRow"]
  /\ UNCHANGED << lastRow, rec, ret >>

\* const lastRow = this.sheet.getLastRow(); if (lastRow <= 1) return null
GetRowIndexLastRow(p) ==
  /\ pc[p] = "idx_getLastRow"
  /\ IF getLastRow(sheet) <= 1
     THEN Miss(p)
     ELSE /\ lastRow' = [lastRow EXCEPT ![p] = getLastRow(sheet)]
          /\ pc' = [pc EXCEPT ![p] = "idx_getValues"]
          /\ UNCHANGED << rowIndex, rec, ret >>
  /\ UNCHANGED << sheet, lock, call, wrote, timedOut, pre, adds, pureAdds, ncalls,
                  dao, sheetExists, issued, addRem >>

\* idColumnValues = getRange(1, 1, lastRow, 1).getValues(), and the loop
GetRowIndexScan(p) ==
  /\ pc[p] = "idx_getValues"
  /\ LET r == ScanIds(getIdColumn(sheet, lastRow[p]), call[p].id)
     IN IF r = 0 THEN Miss(p) ELSE Hit(p, r)
  /\ UNCHANGED << sheet, lock, call, wrote, timedOut, pre, adds, pureAdds, ncalls,
                  dao, sheetExists, issued, addRem >>

(***************************************************************************)
(* find(id), update(id, data), remove(id), listAll()                       *)
(***************************************************************************)
\* return this._getObjectByRowIndex(rowIndex)
FindGetRow(p) ==
  /\ pc[p] = "find_getRow"
  /\ End(p, RetRecord(_toObject(getRow(sheet, rowIndex[p]))))
  /\ UNCHANGED << sheet, lock, call, wrote, timedOut, pre, adds, pureAdds, ncalls,
                  dao, sheetExists, issued, addRem >>

\* currentRecord = _getObjectByRowIndex(rowIndex); updatedRecord = merge
UpdateGetRow(p) ==
  /\ pc[p] = "update_getRow"
  /\ rec' = [rec EXCEPT ![p] = Merge(_toObject(getRow(sheet, rowIndex[p])), call[p].data)]
  /\ pc' = [pc EXCEPT ![p] = "update_setValues"]
  /\ UNCHANGED << sheet, lock, call, lastRow, rowIndex, ret, wrote, timedOut,
                  pre, adds, pureAdds, ncalls,
                  dao, sheetExists, issued, addRem >>

\* getRange(rowIndex, 1, 1, lastCol).setValues([rowValue]); return true
UpdateSetValues(p) ==
  /\ pc[p] = "update_setValues"
  /\ sheet' = setValues(sheet, rowIndex[p], _toRowArray(rec[p]))
  /\ wrote' = [wrote EXCEPT ![p] = @ + 1]
  /\ ToFinally(p, RetBool(TRUE))
  /\ UNCHANGED << lock, call, timedOut, pre, adds, pureAdds, ncalls,
                  dao, sheetExists, issued, addRem >>

\* this.sheet.deleteRow(rowIndex); return true
RemoveDeleteRow(p) ==
  /\ pc[p] = "remove_deleteRow"
  /\ sheet' = deleteRow(sheet, rowIndex[p])
  /\ wrote' = [wrote EXCEPT ![p] = @ + 1]
  /\ End(p, RetBool(TRUE))
  /\ UNCHANGED << lock, call, timedOut, pre, adds, pureAdds, ncalls,
                  dao, sheetExists, issued, addRem >>

\* const lastRow = this.sheet.getLastRow(); if (lastRow <= 1) return []
ListGetLastRow(p) ==
  /\ pc[p] = "list_getLastRow"
  /\ IF getLastRow(sheet) <= 1
     THEN End(p, RetList(<< >>))
     ELSE /\ lastRow' = [lastRow EXCEPT ![p] = getLastRow(sheet)]
          /\ pc' = [pc EXCEPT ![p] = "list_getValues"]
          /\ UNCHANGED << rowIndex, rec, ret >>
  /\ UNCHANGED << sheet, lock, call, wrote, timedOut, pre, adds, pureAdds, ncalls,
                  dao, sheetExists, issued, addRem >>

\* ListGetValues reading from row 1: the header comes back as a record
ListGetValuesFromHeader(p) ==
  /\ pc[p] = "list_getValues"
  /\ End(p, RetList([i \in 1..(lastRow[p] - 1) |-> _toObject(getRow(sheet, i))]))
  /\ UNCHANGED << sheet, lock, call, wrote, timedOut, pre, adds, pureAdds, ncalls,
                  dao, sheetExists, issued, addRem >>

\* getRange(2, 1, lastRow - 1, lastCol).getValues().map(_toObject)
ListGetValues(p) ==
  /\ pc[p] = "list_getValues"
  /\ End(p, RetList([i \in 1..(lastRow[p] - 1) |-> _toObject(getRow(sheet, i + 1))]))
  /\ UNCHANGED << sheet, lock, call, wrote, timedOut, pre, adds, pureAdds, ncalls,
                  dao, sheetExists, issued, addRem >>

(***************************************************************************)
(* The calls run one at a time: one execution, the next call starts when   *)
(* the last one has ended.  No service call fails, and the lock is free    *)
(* whenever a call waits for it.                                           *)
(***************************************************************************)
\* the table after n adds of {name: "Ann"} to the header-only table
SeededSheet(n) ==
  [r \in 1..(n + 1) |-> IF r = 1 THEN HeaderRow ELSE << Num(r - 1), Str("Ann") >>]

\* the arguments op o takes
FindIds == Ids \cup {Str(idKey)}
IdsOf(o) ==
  IF o = "find" THEN FindIds ELSE IF o \in {"update", "remove"} THEN Ids ELSE {Blank}
DatasOf(o) == IF o \in {"add", "update"} THEN PartialRecords ELSE {EmptyRec}

\* the data rows of a sheet
DataRows(sh) == Len(sh) - 1

\* the identifier an add would assign on sheet sh
NextId(sh) == NewId(getLastRow(sh), getRow(sh, getLastRow(sh))[1])

\* an add starts only while the table and its identifiers are within the bounds
AddFits(sh) == DataRows(sh) < MaxRows /\ NextId(sh) <= MaxNum

SeqCall ==
  \E o \in Ops : \E id \in IdsOf(o) : \E data \in DatasOf(o) :
    /\ o = "add" => AddFits(sheet)
    /\ Call(1, o, id, data)
    /\ pre' = sheet
    /\ UNCHANGED ncalls

Step(p) ==
  \/ Return(p)
  \/ WaitLock(p)
  \/ ReleaseLock(p)
  \/ AddGetLastRow(p)
  \/ AddGetValue(p)
  \/ AddAppendRow(p)
  \/ GetRowIndexLastRow(p)
  \/ GetRowIndexScan(p)
  \/ FindGetRow(p)
  \/ UpdateGetRow(p)
  \/ UpdateSetValues(p)
  \/ RemoveDeleteRow(p)
  \/ ListGetLastRow(p)
  \/ ListGetValues(p)

Next == SeqCall \/ Step(1)

Spec == Init /\ [][Next]_vars

\* Construction first: the file has no sheet of the name, or a sheet with no
\* column, or a sheet with its header row and no or one record; the calls
\* then run one at a time on the instance, if there is one.
CtorInit ==
  /\ sheetExists \in BOOLEAN
  /\ sheet \in IF sheetExists THEN {<< >>, << HeaderRow >>, SeededSheet(1)} ELSE {<< >>}
  /\ pre = sheet
  /\ adds = << >>
  /\ pureAdds = FALSE
  /\ issued = 0
  /\ addRem = FALSE
  /\ dao = "none"
  /\ InitProcs

CtorNext == create \/ SeqCall \/ Step(1)

CtorSpec == CtorInit /\ [][CtorNext]_vars

\* The calls run one at a time and no record passed to add or update names
\* the identifier field.
PlainCall ==
  \E o \in Ops : \E id \in IdsOf(o) :
    \E data \in (IF o \in {"add", "update"} THEN DataRecords ELSE {EmptyRec}) :
      /\ o = "add" => AddFits(sheet)
      /\ Call(1, o, id, data)
      /\ pre' = sheet
      /\ UNCHANGED ncalls

PlainNext == PlainCall \/ Step(1)

PlainSpec == Init /\ [][PlainNext]_vars

(***************************************************************************)
(* Concurrent executions: every execution runs add, update and remove      *)
(* calls, their service calls interleave, a wait for the lock may time     *)
(* out while another execution holds it, and a service call in the body    *)
(* of add or update may throw.                                             *)
(***************************************************************************)
ConcOps == {"add", "update", "remove"}
ConcIds == {Num(1), Num(2)}
ConcIdsOf(o) == IF o = "add" THEN {Blank} ELSE ConcIds
ConcDatasOf(o) == IF o = "remove" THEN {EmptyRec} ELSE DataRecords

ConcInit ==
  /\ sheet \in {SeededSheet(n) : n \in 0..MaxRows}
  /\ pre = << HeaderRow >>
  /\ adds = << >>
  /\ pureAdds = FALSE
  /\ issued = 0
  /\ addRem = FALSE
  /\ sheetExists = TRUE
  /\ dao = "ok"
  /\ InitProcs

ConcCall(p) ==
  \E o \in ConcOps : \E id \in ConcIdsOf(o) : \E data \in ConcDatasOf(o) :
    /\ ncalls < MaxCalls
    /\ Call(p, o, id, data)
    /\ ncalls' = ncalls + 1
    /\ UNCHANGED pre

ConcStep(p) ==
  \/ Return(p)
  \/ WaitLock(p)
  \/ LockTimeout(p)
  \/ ReleaseLock(p)
  \/ BodyError(p)
  \/ AddGetLastRow(p)
  \/ AddGetValue(p)
  \/ AddAppendRow(p)
  \/ GetRowIndexLastRow(p)
  \/ GetRowIndexScan(p)
  \/ UpdateGetRow(p)
  \/ UpdateSetValues(p)
  \/ RemoveDeleteRow(p)

ConcNext == \E p \in Procs : ConcCall(p) \/ ConcStep(p)

ConcSpec == ConcInit /\ [][ConcNext]_vars

\* Several callers, each with its own instance on the same sheet, call add
\* and nothing else, starting from the header-only table.
AddInit ==
  /\ sheet = << HeaderRow >>
  /\ pre = sheet
  /\ adds = << >>
  /\ pureAdds = TRUE
  /\ issued = 0
  /\ addRem = FALSE
  /\ sheetExists = TRUE
  /\ dao = "ok"
  /\ InitProcs

AddCall(p) ==
  \E data \in PartialRecords :
    /\ ncalls < MaxCalls
    /\ Call(p, "add", Blank, data)
    /\ ncalls' = ncalls + 1
    /\ UNCHANGED pre

AddStep(p) ==
  \/ Return(p)
  \/ WaitLock(p)
  \/ LockTimeout(p)
  \/ ReleaseLock(p)
  \/ BodyError(p)
  \/ AddGetLastRow(p)
  \/ AddGetValue(p)
  \/ AddAppendRow(p)

AddNext == \E p \in Procs : AddCall(p) \/ AddStep(p)

AddSpec == AddInit /\ [][AddNext]_vars

(***************************************************************************)
(* Properties of the calls run one at a time (Spec).                       *)
(***************************************************************************)
\* execution p's call of op o has ended
Done(p, o) == pc[p] = "done" /\ call[p].op = o

\* find(id) run without interleaving on sheet sh
find(sh, id) ==
  IF _getRowIndexById(sh, id) = 0 THEN RetNull
  ELSE RetRecord(_toObject(getRow(sh, _getRowIndexById(sh, id))))

\* sheet sh is sheet old without its row r, the rows below moved up
IsWithoutRow(sh, old, r) ==
  /\ Len(sh) = Len(old) - 1
  /\ \A q \in 1..Len(sh) : sh[q] = IF q < r THEN old[q] ELSE old[q + 1]

\* C1: no two data rows hold the same value in the identifier column, in
\* every state add, update and remove reach from the header-only table.
C1_UniqueIds ==
  \A i, j \in 2..Len(sheet) : i # j => sheet[i][1] # sheet[j][1]

\* C2: from the table with no data rows listAll returns the empty sequence,
\* and the adds of a run of adds alone return the identifiers 1, 2, ..., N.
C2_AddsCountUp ==
  /\ (Done(1, "listAll") /\ pre = << HeaderRow >>) =>
       (ret[1].kind = "list" /\ ret[1].val = << >>)
  /\ pureAdds => \A i \in 1..Len(adds) : adds[i] = Num(i)

\* C3: find(X) right after an add that returned record R with identifier X
\* returns a record equal to R on every header field.
C3_AddFindRoundTrip ==
  Done(1, "add") =>
    /\ ret[1].kind = "record"
    /\ find(sheet, ret[1].val[idKey]).kind = "record"
    /\ \A k \in HeaderKeys :
         /\ k \in DOMAIN ret[1].val
         /\ ret[1].val[k] = find(sheet, ret[1].val[idKey]).val[k]

\* C4: when the record passed to add holds an identifier, the returned record
\* and the appended row hold the computed next identifier, not the caller's.
C4_AddOverwritesId ==
  (Done(1, "add") /\ idKey \in DOMAIN call[1].data) =>
    /\ ret[1].kind = "record"
    /\ ret[1].val[idKey] = Num(NextId(pre))
    /\ sheet[Len(sheet)][1] = Num(NextId(pre))

C6_RemoveThenFindNull ==
  (Done(1, "remove") /\ _getRowIndexById(pre, call[1].id) # 0) =>
    /\ ret[1].kind = "bool" /\ ret[1].val = TRUE
    /\ IsWithoutRow(sheet, pre, _getRowIndexById(pre, call[1].id))
    /\ find(sheet, call[1].id).kind = "null"

\* C7: when no data row matches id, find returns null, update and remove
\* return false, none throws, the table is as before the call, and after
\* update the lock is free again.
C7_MissChangesNothing ==
  \A o \in {"find", "update", "remove"} :
    (Done(1, o) /\ _getRowIndexById(pre, call[1].id) = 0) =>
      /\ IF o = "find" THEN ret[1].kind = "null"
                       ELSE ret[1].kind = "bool" /\ ret[1].val = FALSE
      /\ sheet = pre
      /\ wrote[1] = 0
      /\ lock = 0

\* an update has missed on a table that holds records
C7_Witness ==
  /\ Done(1, "update")
  /\ Len(pre) >= 3
  /\ _getRowIndexById(pre, call[1].id) = 0
  /\ call[1].data # EmptyRec

\* the same id in the other type: the number for a numeral, the numeral for
\* a number
Twin(id) ==
  IF id.kind = "num" THEN Str(String(id))
  ELSE IF id.s = "" \/ Number(id) = NaN THEN id
  ELSE Num(Number(id))

\* C13: find(id) returns the record of the topmost data row whose identifier
\* cell has the string form of id, null when there is none; the number and
\* the numeral of an id find the same record, and the header row is never
\* the match.
C13_FindFirstStringMatch ==
  Done(1, "find") =>
    LET M == {r \in 2..Len(pre) : String(pre[r][1]) = String(call[1].id)}
    IN /\ IF M = {} THEN ret[1].kind = "null" ELSE ret[1].kind = "record"
       /\ \A r \in M :
            (\A q \in M : r <= q) =>
              \A i \in 1..lastCol : ret[1].val[headers[i]] = pre[r][i]
       /\ ret[1].kind = find(pre, Twin(call[1].id)).kind
       /\ ret[1].kind = "record" => ret[1].val = find(pre, Twin(call[1].id)).val

\* find(2) has returned the upper of two records whose identifier is the
\* text "2"
C13_Witness ==
  /\ Done(1, "find")
  /\ call[1].id = Num(2)
  /\ Len(pre) = 3
  /\ pre[2] = << Str("2"), Str("Ann") >>
  /\ pre[3] = << Str("2"), Blank >>
  /\ ret[1].kind = "record"
  /\ ret[1].val["name"] = Str("Ann")

\* C14: listAll returns one record per data row, in row order, each the row
\* zipped with the header, the empty sequence for a header-only table, and
\* changes neither the table nor the lock.
C14_ListAllRows ==
  Done(1, "listAll") =>
    /\ ret[1].kind = "list"
    /\ Len(ret[1].val) = Len(pre) - 1
    /\ \A i \in 1..(Len(pre) - 1) :
         /\ DOMAIN ret[1].val[i] = HeaderKeys
         /\ \A c \in 1..lastCol : ret[1].val[i][headers[c]] = pre[i + 1][c]
    /\ sheet = pre
    /\ wrote[1] = 0
    /\ lock = 0

\* listAll has returned the two records an add, an update and a remove left
C14_Witness ==
  /\ Done(1, "listAll")
  /\ Len(ret[1].val) = 2
  /\ ret[1].val[1][idKey] = Num(2)
  /\ ret[1].val[2][idKey] = Str("x")

\* C15: constructing against a name the file has no sheet for throws the
\* not-found error, against a sheet with no column the empty-table error; in
\* both cases there is no instance, no operation runs, and the sheet is as it
\* was.
C15_ConstructionFails ==
  /\ (dao # "none" /\ ~sheetExists) => dao = "notFound"
  /\ (dao # "none" /\ sheetExists /\ \A r \in 1..Len(pre) : IsBlankRow(pre[r])) =>
       dao = "empty"
  /\ dao \in {"notFound", "empty"} =>
       /\ \A p \in Procs : pc[p] = "idle" /\ call[p] = NoCall /\ wrote[p] = 0
       /\ sheet = pre
       /\ lock = 0

\* the constructor has thrown the empty-table error on a sheet with no column
C15_Witness == dao = "empty" /\ sheetExists /\ sheet = << >>

(***************************************************************************)
(* Properties of the calls run one at a time when no record names the      *)
(* identifier field (PlainSpec).                                           *)
(***************************************************************************)
\* execution p's add appends its row and returns in this step
AddReturns(p) ==
  pc[p] = "add_appendRow" /\ pc'[p] = "releaseLock" /\ ret'[p].kind = "record"

\* C11: over add and remove calls run one at a time from the table with no
\* data rows, every add returns an identifier larger than every identifier
\* an earlier add returned, so no identifier is returned twice, also when the
\* record that held it was removed in between.
C11_NeverReused ==
  [][(addRem /\ AddReturns(1)) => Number(rec[1][idKey]) > issued]_vars

\* C12: the record add returns has a value for every header field, the empty
\* value for each field the caller did not pass, and is the record form of
\* the row appended as the last row of the table.
C12_AddReturnsStoredRecord ==
  Done(1, "add") =>
    /\ ret[1].kind = "record"
    /\ DOMAIN ret[1].val = HeaderKeys
    /\ \A i \in 1..lastCol :
         /\ headers[i] \in DOMAIN ret[1].val
         /\ ret[1].val[headers[i]] = sheet[Len(sheet)][i]
         /\ headers[i] \notin (DOMAIN call[1].data) \cup {idKey} =>
              ret[1].val[headers[i]] = Blank

\* C17: with calls one at a time and no record naming the identifier field,
\* the identifier cells of the data rows are positive integers strictly
\* increasing from top to bottom, and the identifier an add is about to
\* append differs from every identifier in the table.
C17_IdsIncrease ==
  /\ \A r \in 2..Len(sheet) :
       /\ sheet[r][1].kind = "num"
       /\ sheet[r][1].n >= 1
       /\ r > 2 => sheet[r - 1][1].n < sheet[r][1].n
  /\ pc[1] = "add_appendRow" =>
       \A r \in 2..Len(sheet) : sheet[r][1] # rec[1][idKey]

\* an add has appended identifier 3 below identifier 2, after the record
\* with identifier 1 was removed
C17_Witness ==
  /\ Done(1, "add")
  /\ Len(sheet) = 3
  /\ sheet[2][1] = Num(2)
  /\ sheet[3][1] = Num(3)

(***************************************************************************)
(* Properties of concurrent adds (AddSpec).                                *)
(***************************************************************************)
\* C16: under every interleaving of concurrent add calls the identifiers the
\* successful adds returned are pairwise distinct, and the table holds, after
\* the header, exactly one row per successful add with the identifier that
\* add returned.
C16_AddsNeverCollide ==
  /\ \A i, j \in 1..Len(adds) : i # j => adds[i] # adds[j]
  /\ Len(sheet) = 1 + Len(adds)
  /\ \A i \in 1..Len(adds) : sheet[i + 1][1] = adds[i]

(***************************************************************************)
(* Properties of the concurrent executions (ConcSpec, FairSpec).           *)
(***************************************************************************)
\* The executions that take the lock: add and update calls alone, on a table
\* of no or one record.
LockInit ==
  /\ sheet \in {SeededSheet(0), SeededSheet(1)}
  /\ pre = << HeaderRow >>
  /\ adds = << >>
  /\ pureAdds = FALSE
  /\ issued = 0
  /\ addRem = FALSE
  /\ sheetExists = TRUE
  /\ dao = "ok"
  /\ InitProcs

LockCall(p) ==
  \E o \in {"add", "update"} : \E id \in ConcIdsOf(o) :
    /\ ncalls < MaxCalls
    /\ Call(p, o, id, [k \in {"name"} |-> Str("Ann")])
    /\ ncalls' = ncalls + 1
    /\ UNCHANGED pre

LockStep(p) ==
  \/ Return(p)
  \/ WaitLock(p)
  \/ LockTimeout(p)
  \/ ReleaseLock(p)
  \/ BodyError(p)
  \/ AddGetLastRow(p)
  \/ AddGetValue(p)
  \/ AddAppendRow(p)
  \/ GetRowIndexLastRow(p)
  \/ GetRowIndexScan(p)
  \/ UpdateGetRow(p)
  \/ UpdateSetValues(p)

LockNext == \E p \in Procs : LockCall(p) \/ LockStep(p)

\* every service call returns or throws, and waitLock returns or throws
\* within its 30 s: an execution that can take a step takes one
FairSpec ==
  LockInit /\ [][LockNext]_vars /\ \A p \in Procs : WF_vars(LockStep(p))

\* execution p is between its lock acquisition and its lock release
Holding(p) ==
  \/ pc[p] \in BodyPcs(call[p].op)
  \/ pc[p] = "releaseLock" /\ ~timedOut[p]

\* C8: at most one execution at a time is between its lock acquisition and
\* its lock release in add or update, and it is the one the lock names, also
\* when calls fail with a lock timeout.
C8_MutualExclusion ==
  /\ Cardinality({p \in Procs : Holding(p)}) <= 1
  /\ \A p \in Procs : Holding(p) => lock = p

\* one execution is in the body of its call after another's call timed out
\* and ended
C8_Witness ==
  \E p, q \in Procs :
    /\ pc[p] \in {"add_appendRow", "update_setValues"}
    /\ pc[q] = "done" /\ timedOut[q]

\* C9: an execution whose add or update call has ended, by a return, by
\* update's return false on a miss, by an error in the body or by a lock
\* timeout, holds no lock; and an execution that waits for the lock
\* eventually stops waiting (it acquires the lock or times out).
C9_LockReleased ==
  /\ [](\A p \in Procs : pc[p] \in {"idle", "done"} => lock # p)
  /\ \A p \in Procs : (pc[p] = "waitLock") ~> (pc[p] # "waitLock")

\* a call has ended with an error thrown in its body, and another execution
\* holds the lock after it
C9_Witness ==
  \E p, q \in Procs :
    /\ pc[p] = "done" /\ ret[p].kind = "error"
    /\ lock = q /\ Holding(q)

\* C10: a call that could not get the lock ends with the timeout failure,
\* has written nothing to the table and returns no record or boolean.
C10_TimeoutWritesNothing ==
  \A p \in Procs :
    timedOut[p] =>
      /\ pc[p] \in {"releaseLock", "done"}
      /\ ret[p].kind = "timeout"
      /\ wrote[p] = 0

\* an update has ended with the timeout failure while an add held the lock
C10_Witness ==
  \E p, q \in Procs :
    /\ Done(p, "update") /\ timedOut[p]
    /\ call[q].op = "add" /\ Holding(q)

(***************************************************************************)
(* Properties of remove, which takes no lock, among concurrent callers     *)
(* (ConcSpec).                                                             *)
(***************************************************************************)
\* execution p's remove deletes its row in this step and returns true
RemoveDeletes(p) ==
  pc[p] = "remove_deleteRow" /\ pc'[p] = "done" /\ ret'[p] = RetBool(TRUE)

\* execution p's update writes its row in this step
UpdateWrites(p) ==
  pc[p] = "update_setValues" /\ pc'[p] = "releaseLock" /\ ret'[p] = RetBool(TRUE)

\* C18: in every interleaving of remove with other callers' remove, add and
\* update, the row a remove(id) deletes holds identifier id at the moment it
\* is deleted.
C18_RemoveDeletesItsRecord ==
  [][\A p \in Procs :
       RemoveDeletes(p) =>
         /\ rowIndex[p] \in 2..Len(sheet)
         /\ String(sheet[rowIndex[p]][1]) = String(call[p].id)]_vars

\* C19: in every interleaving of an unlocked remove with update and add, the
\* row an update(id, data) writes holds identifier id at the moment it is
\* written, and the identifiers in the table stay pairwise distinct.
C19_WritesSurviveRemove ==
  [][/\ \A p \in Procs :
          UpdateWrites(p) =>
            /\ rowIndex[p] \in 2..Len(sheet)
            /\ String(sheet[rowIndex[p]][1]) = String(call[p].id)
     /\ \A i \in 2..Len(sheet') : \A j \in 2..Len(sheet') :
          i < j => String(sheet'[i][1]) # String(sheet'[j][1])]_vars

====
